---- MODULE Spec2Model ----
(***************************************************************************)
(* Model of src/src/lookup_padding.rs: LookupChip::configure registers one *)
(* selector-gated lookup_any of the advice column a against the advice     *)
(* column t2; LookupChip::assign fills a, the selector s, t2 and the fixed *)
(* table t1; the test runs MockProver::run(k, circuit) and asserts that    *)
(* the trace is satisfied.                                                 *)
(*                                                                         *)
(* The halo2_proofs calls the source makes (ConstraintSystem, the region   *)
(* and table layouter of SimpleFloorPlanner, MockProver) are modelled by   *)
(* what they do at the call sites: column handles are allocation counters, *)
(* every write checks the row against the usable rows, an unassigned cell  *)
(* reads as zero, a lookup holds on a row when the input tuple equals the  *)
(* table tuple of some usable row.  When assign_table ends, the table      *)
(* layouter fills the rows of t1 past its assigned cells with the value    *)
(* assigned at row 0; that fill is kept in table_default, apart from the   *)
(* cells that assign itself writes.                                        *)
(*                                                                         *)
(* Field elements are modelled by the integers: every value that occurs is *)
(* in 0..MaxVal+1 and s is 0 or 1, so s*a + (1-s)*1 never wraps.           *)
(***************************************************************************)
EXTENDS Integers, Sequences, FiniteSets, TLC

VARIABLES k, a_arr, pc, i, meta, config, advice, fixed, selectors,
          table_default, err, result

vars == <<k, a_arr, pc, i, meta, config, advice, fixed, selectors,
          table_default, err, result>>

(* ------------------------------ bounds -------------------------------- *)

\* largest field value an input holds
MaxVal == 10
\* longest input over which every value sequence is enumerated
MaxLen == 2
\* largest capacity parameter k (the trace has 2^k rows)
MaxK == 5
\* constant inputs of length 2^k - MaxMargin .. 2^k reach the capacity boundary
MaxMargin == 7

(* --------------------------- the test's data -------------------------- *)

\* let k = 5;
TestK == 5

\* let a = [0, 1, 2, 3];
TestInput == <<0, 1, 2, 3>>

(* ---------------------------- expressions ----------------------------- *)

\* Expression::Constant(F::ONE)
Constant(v) == [tag |-> "Constant", value |-> v]

Negated(e) == [tag |-> "Negated", e |-> e]

Sum(l, r) == [tag |-> "Sum", l |-> l, r |-> r]

Product(l, r) == [tag |-> "Product", l |-> l, r |-> r]

\* the `-` of Expression: a - b is a + (-b)
Sub(l, r) == Sum(l, Negated(r))

(* -------------------------- constraint system ------------------------- *)

\* ConstraintSystem::default()
EmptyCS ==
    [num_advice_columns |-> 0,
     num_fixed_columns |-> 0,
     num_selectors |-> 0,
     permutation |-> <<>>,
     advice_queries |-> <<>>,
     lookups |-> <<>>]

\* meta.advice_column(): the handle is the number of advice columns so far
advice_column(cs) ==
    [cs |-> [cs EXCEPT !.num_advice_columns = @ + 1],
     column |-> cs.num_advice_columns]

\* meta.complex_selector()
complex_selector(cs) ==
    [cs |-> [cs EXCEPT !.num_selectors = @ + 1],
     selector |-> cs.num_selectors]

\* meta.lookup_table_column(): a table column is a fixed column
lookup_table_column(cs) ==
    [cs |-> [cs EXCEPT !.num_fixed_columns = @ + 1],
     column |-> cs.num_fixed_columns]

\* meta.enable_equality(a)
enable_equality(cs, column) ==
    [cs EXCEPT !.permutation = Append(@, <<"Advice", column>>)]

\* meta.query_advice(column, Rotation::cur()): records the query once
query_advice(cs, column, rotation) ==
    LET q == <<column, rotation>>
        seen == \E j \in 1..Len(cs.advice_queries) : cs.advice_queries[j] = q
    IN  [cs |-> IF seen THEN cs
                ELSE [cs EXCEPT !.advice_queries = Append(@, q)],
         expr |-> [tag |-> "Advice", column_index |-> column,
                   rotation |-> rotation]]

\* meta.query_selector(s)
query_selector(cs, selector) ==
    [cs |-> cs, expr |-> [tag |-> "Selector", index |-> selector]]

\* the fixed-column query a lookup against a TableColumn makes
query_fixed(cs, column) ==
    [cs |-> cs, expr |-> [tag |-> "Fixed", column_index |-> column,
                          rotation |-> 0]]

\* a plausible slip: the selector gate is left out and the lookup input is a
lookup_input_ungated(s, cur_a, one) == cur_a

\* s.clone() * cur_a + (one.clone() - s) * one.clone()
lookup_input(s, cur_a, one) ==
    Sum(Product(s, cur_a), Product(Sub(one, s), one))

\* the closure of meta.lookup_any("lookup_any", ..): the table is column t2
lookup_any(cs, a, s, t2, one) ==
    LET qa == query_advice(cs, a, 0)
        qt == query_advice(qa.cs, t2, 0)
        qs == query_selector(qt.cs, s)
    IN  [qs.cs EXCEPT !.lookups =
            Append(@, [name |-> "lookup_any",
                       inputs |-> <<lookup_input(qs.expr, qa.expr, one)>>,
                       table |-> <<qt.expr>>])]

\* the closure of the disabled meta.lookup("lookup", ..): the table is t1
lookup_fixed(cs, a, s, t1, one) ==
    LET qa == query_advice(cs, a, 0)
        qs == query_selector(qa.cs, s)
        qt == query_fixed(qs.cs, t1)
    IN  [qt.cs EXCEPT !.lookups =
            Append(@, [name |-> "lookup",
                       inputs |-> <<lookup_input(qs.expr, qa.expr, one)>>,
                       table |-> <<qt.expr>>])]

\* the handles configure declares, in the order it declares them
declare_columns(cs) ==
    LET ra == advice_column(cs)
        rs == complex_selector(ra.cs)
        r1 == lookup_table_column(rs.cs)
        r2 == advice_column(r1.cs)
    IN  [cs |-> enable_equality(r2.cs, ra.column),
         config |-> [a |-> ra.column, s |-> rs.selector,
                     t1 |-> r1.column, t2 |-> r2.column]]

\* a plausible slip: the disabled lookup against t1 is registered instead
configure_lookup_fixed(cs) ==
    LET d == declare_columns(cs)
    IN  [cs |-> lookup_fixed(d.cs, d.config.a, d.config.s, d.config.t1,
                             Constant(1)),
         config |-> d.config]

\* a plausible slip: the disabled lookup against t1 is registered as well
configure_both(cs) ==
    LET d == declare_columns(cs)
        c1 == lookup_fixed(d.cs, d.config.a, d.config.s, d.config.t1,
                           Constant(1))
    IN  [cs |-> lookup_any(c1, d.config.a, d.config.s, d.config.t2,
                           Constant(1)),
         config |-> d.config]

\* a plausible slip: t2 is not declared and shares the handle of a
configure_shared_column(cs) ==
    LET ra == advice_column(cs)
        rs == complex_selector(ra.cs)
        r1 == lookup_table_column(rs.cs)
        c == enable_equality(r1.cs, ra.column)
    IN  [cs |-> lookup_any(c, ra.column, rs.selector, ra.column, Constant(1)),
         config |-> [a |-> ra.column, s |-> rs.selector,
                     t1 |-> r1.column, t2 |-> ra.column]]

\* LookupChip::configure
configure(cs) ==
    LET d == declare_columns(cs)
    IN  [cs |-> lookup_any(d.cs, d.config.a, d.config.s, d.config.t2,
                           Constant(1)),
         config |-> d.config]

(* ------------------------------ the trace ----------------------------- *)

\* a cell no write has reached
Unassigned == <<>>

\* a cell holding the field value v
Assigned(v) == <<v>>

\* let n = 1 << k, the rows of the trace
N == 2 ^ k

Rows == 0..(N - 1)

Max(x, y) == IF x >= y THEN x ELSE y

\* cs.blinding_factors(): the most queries any advice column receives, at
\* least 3, plus one for multiopen and one spare
blinding_factors(cs) ==
    LET count(c) == Cardinality({j \in 1..Len(cs.advice_queries) :
                                    cs.advice_queries[j][1] = c})
        most == IF cs.num_advice_columns = 0 THEN 1
                ELSE CHOOSE m \in {count(c) : c \in 0..(cs.num_advice_columns - 1)} :
                        \A c \in 0..(cs.num_advice_columns - 1) : count(c) <= m
    IN  Max(3, most) + 1 + 1

\* cs.minimum_rows()
minimum_rows(cs) == blinding_factors(cs) + 3

\* usable_rows = 0..n - (blinding_factors + 1): the row capacity of the trace
usable_end(cs) == N - (blinding_factors(cs) + 1)

Capacity == usable_end(meta)

UsableRows == 0..(Capacity - 1)

\* the check every write makes: Err(NotEnoughRowsAvailable) outside the usable rows
InUsable(row) == row \in UsableRows

\* a plausible slip: the Result of a write is dropped instead of propagated
TryIgnore(ok, next) == next

\* what `?` does with a failed write: the error leaves assign at once
Try(ok, next) == IF ok THEN next ELSE "error"

NotEnoughRows(where, row) == <<"NotEnoughRowsAvailable", where, row>>

\* the handles of the configuration in use
Cfg == config[1]

\* the trace handed to the checker
Trace ==
    [advice |-> advice, fixed |-> fixed, selectors |-> selectors,
     table_default |-> table_default]

\* an unassigned advice cell reads as zero
ReadCell(c) == IF c = Unassigned THEN 0 ELSE c[1]

\* a fixed cell; the rows of a table column past its assigned cells read as
\* the default the table layouter filled them with
ReadFixed(tr, col, row) ==
    IF tr.fixed[col][row] # Unassigned THEN tr.fixed[col][row][1]
    ELSE ReadCell(tr.table_default[col])

RECURSIVE Eval(_, _, _)
\* Expression::evaluate on one row of the trace
Eval(tr, e, row) ==
    CASE e.tag = "Constant" -> e.value
      [] e.tag = "Selector" -> IF tr.selectors[e.index][row] THEN 1 ELSE 0
      [] e.tag = "Advice" ->
            ReadCell(tr.advice[e.column_index][(row + e.rotation) % N])
      [] e.tag = "Fixed" ->
            ReadFixed(tr, e.column_index, (row + e.rotation) % N)
      [] e.tag = "Negated" -> 0 - Eval(tr, e.e, row)
      [] e.tag = "Sum" -> Eval(tr, e.l, row) + Eval(tr, e.r, row)
      [] e.tag = "Product" -> Eval(tr, e.l, row) * Eval(tr, e.r, row)

EvalAll(tr, es, row) == [j \in 1..Len(es) |-> Eval(tr, es[j], row)]

\* the table of a lookup: its table expressions on every usable row
TableOf(tr, lookup, usable) == {EvalAll(tr, lookup.table, r) : r \in usable}

\* the rows of one lookup whose input tuple is not in its table
FailedRows(tr, lookup, usable) ==
    LET table == TableOf(tr, lookup, usable)
    IN  {r \in usable : EvalAll(tr, lookup.inputs, r) \notin table}

\* MockProver::verify: the (lookup, row) pairs whose input is not in the table
verify(cs, tr, usable) ==
    UNION {{<<li, r>> : r \in FailedRows(tr, cs.lookups[li], usable)} :
              li \in 1..Len(cs.lookups)}

(* ------------------------------- inputs ------------------------------- *)

Vals == 0..MaxVal

\* every input of length at most MaxLen
ShortInputs == UNION {[1..n -> Vals] : n \in 0..MaxLen}

\* constant inputs whose length is about the number of rows of the trace
LongInputs(kk) ==
    {[j \in 1..n |-> v] : n \in Max(0, 2 ^ kk - MaxMargin)..(2 ^ kk), v \in Vals}

Inputs(kk) == ShortInputs \cup {TestInput} \cup LongInputs(kk)

(* -------------------------------- Init -------------------------------- *)

NoResult == [ran |-> FALSE, failures |-> {}]

\* MockProver::run(k, &circuit, vec![]) is entered with MyCircuit { a }
Init ==
    /\ k \in 1..MaxK
    /\ a_arr \in Inputs(k)
    /\ pc = "configure"
    /\ i = 0
    /\ meta = EmptyCS
    /\ config = <<>>
    /\ advice = <<>>
    /\ fixed = <<>>
    /\ selectors = <<>>
    /\ table_default = <<>>
    /\ err = <<>>
    /\ result = NoResult

(* ------------------------------ actions ------------------------------- *)

\* MyCircuit::configure -> LookupChip::configure(&mut cs)
Configure ==
    /\ pc = "configure"
    /\ meta' = configure(meta).cs
    /\ config' = <<configure(meta).config>>
    /\ pc' = "run"
    /\ UNCHANGED <<k, a_arr, i, advice, fixed, selectors, table_default,
                   err, result>>

\* MockProver::run: assert!(n >= cs.minimum_rows()), then the empty trace
\* is allocated from the column counts of the constraint system
MockProverRun ==
    /\ pc = "run"
    /\ IF N >= minimum_rows(meta)
       THEN /\ advice' = [c \in 0..(meta.num_advice_columns - 1) |->
                            [r \in Rows |-> Unassigned]]
            /\ fixed' = [c \in 0..(meta.num_fixed_columns - 1) |->
                            [r \in Rows |-> Unassigned]]
            /\ selectors' = [c \in 0..(meta.num_selectors - 1) |->
                            [r \in Rows |-> FALSE]]
            /\ table_default' = [c \in 0..(meta.num_fixed_columns - 1) |->
                            Unassigned]
            /\ pc' = "region_a"
       ELSE /\ pc' = "panic"
            /\ UNCHANGED <<advice, fixed, selectors, table_default>>
    /\ UNCHANGED <<k, a_arr, i, meta, config, err, result>>

\* a plausible slip: the loop stops one element early
LoopEndShort(arr) == Len(arr) - 1

\* for i in 0..a_arr.len()
LoopEnd(arr) == Len(arr)

\* self.config.s.enable(&mut region, i)?
EnableSelector ==
    /\ pc = "region_a"
    /\ i < LoopEnd(a_arr)
    /\ selectors' = IF InUsable(i)
                    THEN [selectors EXCEPT ![Cfg.s][i] = TRUE]
                    ELSE selectors
    /\ err' = IF InUsable(i) THEN err ELSE NotEnoughRows("s", i)
    /\ pc' = Try(InUsable(i), "assign_a")
    /\ UNCHANGED <<k, a_arr, i, meta, config, advice, fixed, table_default,
                   result>>

\* a plausible slip: the value is written to the reference column
ValueColumnMixedUp == Cfg.t2

\* self.config.a
ValueColumn == Cfg.a

\* region.assign_advice(|| "a col", self.config.a, i, || a_arr[i])?
AssignA ==
    /\ pc = "assign_a"
    /\ advice' = IF InUsable(i)
                 THEN [advice EXCEPT ![ValueColumn][i] = Assigned(a_arr[i + 1])]
                 ELSE advice
    /\ err' = IF InUsable(i) THEN err ELSE NotEnoughRows("a", i)
    /\ pc' = Try(InUsable(i), "region_a")
    /\ i' = i + 1
    /\ UNCHANGED <<k, a_arr, meta, config, fixed, selectors, table_default,
                   result>>

\* the first region returns Ok(()) and the region "t2" is entered
EndRegionA ==
    /\ pc = "region_a"
    /\ i >= LoopEnd(a_arr)
    /\ pc' = "region_t2"
    /\ i' = 0
    /\ UNCHANGED <<k, a_arr, meta, config, advice, fixed, selectors,
                   table_default, err, result>>

\* a plausible slip: the reference loop stops one row early (for i in 1..9)
T2LenShort == 10 - 1

\* for i in 1..10 of the region "t2"
T2Len == 10

\* a plausible slip: row 0 gets 0, as the comment of configure says
T2ValueZeroFirst(row) == row

\* F::from(1 as u64) at row 0, F::from(i as u64) at row i
T2Value(row) == IF row = 0 THEN 1 ELSE row

\* region.assign_advice(|| "t2 col", self.config.t2, i, ..)? for row 0 and
\* for each i of the loop
AssignT2 ==
    /\ pc = "region_t2"
    /\ i < T2Len
    /\ advice' = IF InUsable(i)
                 THEN [advice EXCEPT ![Cfg.t2][i] = Assigned(T2Value(i))]
                 ELSE advice
    /\ err' = IF InUsable(i) THEN err ELSE NotEnoughRows("t2", i)
    /\ pc' = Try(InUsable(i), "region_t2")
    /\ i' = i + 1
    /\ UNCHANGED <<k, a_arr, meta, config, fixed, selectors, table_default,
                   result>>

\* the region "t2" returns Ok(()) and the table "t1" is entered
EndRegionT2 ==
    /\ pc = "region_t2"
    /\ i >= T2Len
    /\ pc' = "table_t1"
    /\ i' = 0
    /\ UNCHANGED <<k, a_arr, meta, config, advice, fixed, selectors,
                   table_default, err, result>>

\* for i in 1..10 of the table "t1"
T1Len == 10

\* F::from(1 as u64) at row 0, F::from(i as u64) at row i
T1Value(row) == IF row = 0 THEN 1 ELSE row

\* table.assign_cell(|| "t1", self.config.t1, i, ..)? for row 0 and for
\* each i of the loop
AssignT1 ==
    /\ pc = "table_t1"
    /\ i < T1Len
    /\ fixed' = IF InUsable(i)
                THEN [fixed EXCEPT ![Cfg.t1][i] = Assigned(T1Value(i))]
                ELSE fixed
    /\ err' = IF InUsable(i) THEN err ELSE NotEnoughRows("t1", i)
    /\ pc' = Try(InUsable(i), "table_t1")
    /\ i' = i + 1
    /\ UNCHANGED <<k, a_arr, meta, config, advice, selectors, table_default,
                   result>>

\* the closure of assign_table returns Ok(()): the table layouter fills the
\* rows from the first unused one with the value assigned at row 0 (kept in
\* table_default, apart from the cells assign wrote), which fails when that
\* row is not usable; then assign returns Ok(())
EndTableT1 ==
    /\ pc = "table_t1"
    /\ i >= T1Len
    /\ table_default' = IF InUsable(i)
                        THEN [table_default EXCEPT ![Cfg.t1] = fixed[Cfg.t1][0]]
                        ELSE table_default
    /\ err' = IF InUsable(i) THEN err ELSE NotEnoughRows("t1_fill", i)
    /\ pc' = Try(InUsable(i), "assigned")
    /\ UNCHANGED <<k, a_arr, i, meta, config, advice, fixed, selectors,
                   result>>

\* MockProver::run(..).unwrap() returned the prover: prover.assert_satisfied()
Verify ==
    /\ pc = "assigned"
    /\ result' = [ran |-> TRUE, failures |-> verify(meta, Trace, UsableRows)]
    /\ pc' = IF verify(meta, Trace, UsableRows) = {} THEN "passed" ELSE "failed"
    /\ UNCHANGED <<k, a_arr, i, meta, config, advice, fixed, selectors,
                   table_default, err>>

Next ==
    \/ Configure
    \/ MockProverRun
    \/ EnableSelector
    \/ AssignA
    \/ EndRegionA
    \/ AssignT2
    \/ EndRegionT2
    \/ AssignT1
    \/ EndTableT1
    \/ Verify

Spec == Init /\ [][Next]_vars


(* ------------------------- state of the run --------------------------- *)

\* assign returned Ok(())
Succeeded == pc \in {"assigned", "passed", "failed"}

\* the satisfiability check has run
Verified == pc \in {"passed", "failed"}

\* the trace exists: MockProver::run is past its allocation
Allocated == pc \notin {"configure", "run", "panic"}

ColA == advice[Cfg.a]

ColT2 == advice[Cfg.t2]

ColT1 == fixed[Cfg.t1]

Selected(r) == selectors[Cfg.s][r]

RECURSIVE Reads(_)
\* the column queries an expression contains
Reads(e) ==
    CASE e.tag = "Constant" -> {}
      [] e.tag = "Selector" -> {<<"Selector", e.index>>}
      [] e.tag = "Advice" -> {<<"Advice", e.column_index>>}
      [] e.tag = "Fixed" -> {<<"Fixed", e.column_index>>}
      [] e.tag = "Negated" -> Reads(e.e)
      [] e.tag = "Sum" -> Reads(e.l) \cup Reads(e.r)
      [] e.tag = "Product" -> Reads(e.l) \cup Reads(e.r)

\* every column query of the registered lookups
RegisteredReads ==
    UNION {Reads(meta.lookups[li].inputs[j]) \cup Reads(meta.lookups[li].table[j]) :
              li \in 1..Len(meta.lookups), j \in {1}}

(* ------------------------------- claims ------------------------------- *)

\* C1 (as stated): the check reports satisfied iff every input value is one
\* of 1..9, the entries of the populated rows 0..10 of t2.
C1_Original ==
    Verified =>
        (result.failures = {} <=> \A j \in 1..Len(a_arr) : a_arr[j] \in 1..9)

\* C1 (amended): the check reports satisfied iff every value on a selected
\* row equals the entry of t2 on some usable row, an unassigned row reading
\* as zero: the value is one of 1..9, or it is 0 and the trace has a usable
\* row 10 or above.
C1_Amended ==
    Verified =>
        /\ result.failures = {} <=>
              \A j \in 1..Len(a_arr) :
                  \/ a_arr[j] \in 1..9
                  \/ a_arr[j] = 0 /\ Capacity > 10
        /\ result.failures = {} <=>
              \A r \in UsableRows :
                  Selected(r) =>
                      \E tr \in UsableRows : ReadCell(ColA[r]) = ReadCell(ColT2[tr])

C1_Witness ==
    /\ pc = "passed"
    /\ \E j \in 1..Len(a_arr) : a_arr[j] = 0
    /\ \E j \in 1..Len(a_arr) : a_arr[j] = 9

\* C2 (as stated): for input [0,1,2,3] with k = 5 the result is unsatisfied,
\* row 0 violating the lookup and rows 1 to 3 satisfying it.
C2_Original ==
    (Verified /\ k = TestK /\ a_arr = TestInput) =>
        /\ pc = "failed"
        /\ result.failures = {<<1, 0>>}

\* C2 (amended): for input [0,1,2,3] with k = 5 the result is satisfied: no
\* row violates the lookup, row 0 included, whose value 0 is the entry the
\* unassigned rows of t2 read as.
C2_Amended ==
    (Verified /\ k = TestK /\ a_arr = TestInput) =>
        /\ pc = "passed"
        /\ result.failures = {}
        /\ ReadCell(ColA[0]) = 0
        /\ \E tr \in UsableRows : ColT2[tr] = Unassigned

C2_Witness == Verified /\ k = TestK /\ a_arr = TestInput

\* C3: rows 10 and above of t2 are left unassigned, read as zero and count
\* as table entries, so whenever the trace has such a usable row a selected
\* value of 0 is accepted; input [0,1,2,3] with k = 5 is reported satisfied.
C3_ZeroAccepted ==
    Verified =>
        /\ \A r \in UsableRows :
              (Selected(r) /\ ReadCell(ColA[r]) = 0 /\ Capacity > 10) =>
                  /\ \A tr \in UsableRows : tr >= 10 => ColT2[tr] = Unassigned
                  /\ \A li \in 1..Len(meta.lookups) : <<li, r>> \notin result.failures
        /\ (k = 5 /\ a_arr = <<0, 1, 2, 3>>) => pc = "passed"

C3_Witness ==
    /\ pc = "passed"
    /\ Capacity > 10
    /\ \E r \in UsableRows : Selected(r) /\ ColA[r] = Assigned(0)

\* C4: on every row whose selector is 0 the lookup holds whatever the value
\* column contains there: the input s*a + (1-s)*1 evaluates to 1, and 1 is
\* in the reference column because assign writes 1 at row 0.
C4_UnselectedRows ==
    Succeeded =>
        /\ ColT2[0] = Assigned(1)
        /\ \A li \in 1..Len(meta.lookups) :
              /\ <<1>> \in TableOf(Trace, meta.lookups[li], UsableRows)
              /\ \A v \in Vals :
                    LET tr == [Trace EXCEPT !.advice[Cfg.a] =
                                              [r \in Rows |-> Assigned(v)]]
                    IN  \A r \in UsableRows :
                            ~Selected(r) =>
                                EvalAll(tr, meta.lookups[li].inputs, r) = <<1>>
              /\ \A r \in UsableRows :
                    ~Selected(r) => <<li, r>> \notin result.failures

C4_Witness ==
    /\ pc = "failed"
    /\ \E r \in UsableRows : ~Selected(r)

\* C5 (as stated): an input whose length equals the row capacity is assigned
\* without error, and one of length capacity+1 fails with a row-out-of-range
\* error raised at the selector or the value column.
C5_Original ==
    Allocated =>
        /\ Len(a_arr) = Capacity => err = <<>>
        /\ (Len(a_arr) = Capacity + 1 /\ pc \notin {"region_a", "assign_a"}) =>
              /\ pc = "error"
              /\ err \in {NotEnoughRows(w, Capacity) : w \in {"s", "a"}}

\* C5 (amended): when the capacity exceeds the 10 rows of the reference
\* data, an input whose length equals the capacity is assigned without
\* error; an input of length capacity+1 fails with a row-out-of-range error
\* raised at the selector write of row `capacity`.
C5_Amended ==
    Allocated =>
        /\ (Len(a_arr) = Capacity /\ Capacity > 10) => err = <<>>
        /\ (Len(a_arr) = Capacity + 1 /\ pc \notin {"region_a", "assign_a"}) =>
              /\ pc = "error"
              /\ err = NotEnoughRows("s", Capacity)
              /\ ~result.ran

C5_Witness == Succeeded /\ Len(a_arr) = Capacity

\* C6: after a successful assign of an input of length n, row i < n holds
\* values[i] with the selector on, row i >= n has the selector off and the
\* value column unassigned; the value-assignment step writes no cell of the
\* reference column or of the fixed table.
C6_ValueRegion ==
    /\ Succeeded =>
          \A r \in Rows :
              IF r < Len(a_arr)
              THEN ColA[r] = Assigned(a_arr[r + 1]) /\ Selected(r)
              ELSE ColA[r] = Unassigned /\ ~Selected(r)
    /\ (pc \in {"region_a", "assign_a"} \/ (pc = "region_t2" /\ i = 0)) =>
          /\ \A r \in Rows : ColT2[r] = Unassigned /\ ColT1[r] = Unassigned
          /\ table_default[Cfg.t1] = Unassigned

C6_Witness ==
    /\ Succeeded
    /\ Len(a_arr) > 1
    /\ Len(a_arr) < Capacity
    /\ a_arr[1] # a_arr[2]

C8_ConfigureDeterministic ==
    pc # "configure" =>
        /\ config = <<[a |-> 0, s |-> 0, t1 |-> 0, t2 |-> 1]>>
        /\ meta.num_advice_columns = 2
        /\ meta.num_fixed_columns = 1
        /\ meta.num_selectors = 1
        /\ meta.permutation = <<(<<"Advice", 0>>)>>
        /\ Len(meta.lookups) = 1
        /\ meta.lookups[1].name = "lookup_any"
        /\ meta.lookups[1].table =
              <<[tag |-> "Advice", column_index |-> 1, rotation |-> 0]>>
        /\ meta.lookups[1].inputs =
              <<Sum(Product([tag |-> "Selector", index |-> 0],
                            [tag |-> "Advice", column_index |-> 0, rotation |-> 0]),
                    Product(Sum(Constant(1), Negated([tag |-> "Selector", index |-> 0])),
                            Constant(1)))>>

C8_Witness == pc = "region_t2" /\ k # TestK /\ a_arr # TestInput /\ a_arr # <<>>

\* C9: when a write fails with a capacity error, assign returns at once:
\* nothing is written after the failing write, the run is aborted and the
\* satisfiability check is never run.
C9_ErrorAborts ==
    err # <<>> =>
        /\ pc = "error"
        /\ ~result.ran
        /\ err[2] \in {"s", "a"} =>
              /\ \A r \in Rows : ColT2[r] = Unassigned /\ ColT1[r] = Unassigned
              /\ \A r \in Rows : r >= err[3] => ColA[r] = Unassigned
              /\ \A r \in Rows : r >= err[3] => ~Selected(r)
        /\ err[2] = "t2" =>
              /\ \A r \in Rows : r >= err[3] => ColT2[r] = Unassigned
              /\ \A r \in Rows : ColT1[r] = Unassigned
        /\ err[2] = "t1" => \A r \in Rows : r >= err[3] => ColT1[r] = Unassigned
        /\ table_default[Cfg.t1] = Unassigned

C9_Witness ==
    /\ pc = "error"
    /\ err[2] = "s"
    /\ err[3] > 0
    /\ ColA[0] # Unassigned

\* the contents the fixed table could have instead: nothing, all zero or a
\* value no input matches, with no fill, a zero fill or a fill with a value
T1Alternatives ==
    [cells : {[r \in Rows |-> c] : c \in {Unassigned, Assigned(0), Assigned(MaxVal + 1)}},
     default : {Unassigned, Assigned(0), Assigned(MaxVal + 1)}]

\* C10: no registered constraint reads the fixed table t1, so the result of
\* the check is the same for every content of t1, the value column, the
\* selector and t2 being equal.
C10_IndependentOfT1 ==
    Verified =>
        /\ <<"Fixed", Cfg.t1>> \notin RegisteredReads
        /\ \A alt \in T1Alternatives :
              verify(meta,
                     [Trace EXCEPT !.fixed[Cfg.t1] = alt.cells,
                                   !.table_default[Cfg.t1] = alt.default],
                     UsableRows) = result.failures

C10_Witness ==
    /\ pc = "failed"
    /\ table_default[Cfg.t1] = Assigned(1)
    /\ ColT1[9] = Assigned(9)

====
